---- MODULE Spec2Model ----
(***************************************************************************)
(* ChainHeart: on-chain heartbeat registry and master election.            *)
(* The contract (contracts/ChainHeart.sol) is modelled as a state machine: *)
(* its storage, the chain's clock, and one action per external function.   *)
(* Every transaction leaves a receipt (status and event logs).             *)
(* The node client (client/index.js) is modelled on top of it: every tick  *)
(* of a node is a small process that stops at each await.                  *)
(***************************************************************************)
EXTENDS Integers, Sequences, FiniteSets, Bags, TLC

(* ---- bounds of the model ---- *)
MaxTime == 5          \* largest block.timestamp explored
MaxTimeout == 2       \* largest heartbeat timeout explored
MaxStep == 2          \* largest timestamp gap between two blocks
MaxWindow == 2        \* claims remembered per election window
MaxTicks == 2         \* ticks in progress at one time, over all nodes
NodeMaxTime == 3      \* largest block.timestamp explored with running nodes

(* ---- the chain ---- *)
GenesisTime == 1      \* timestamp of the block holding the deployment
GenesisBlock == 1     \* number of the block holding the deployment

(* ---- identities ---- *)
MAC_A == "A"
MAC_B == "B"
MAC_C == "C"
MACs == {MAC_A, MAC_B, MAC_C}
Strings == MACs \cup {""}

ZeroAddress == 0
shared == 1
stranger == 2
Signers == {shared, stranger}

(* keccak256 over the strings of the model: injective, never bytes32(0) *)
Bytes32Zero == 0
keccak256(s) ==
  CASE s = MAC_A -> 11
    [] s = MAC_B -> 12
    [] s = MAC_C -> 13
    [] s = ""    -> 14
Hashes == {Bytes32Zero} \cup {keccak256(s) : s \in Strings}

VARIABLES
  deployed,           \* TRUE once the constructor has returned without revert
  currentMasterMAC,   \* string public currentMasterMAC
  currentMasterHash,  \* bytes32 public currentMasterHash
  heartbeatTimeout,   \* uint256 public heartbeatTimeout
  sharedKeyAddress,   \* address public sharedKeyAddress
  heartbeats,         \* mapping(bytes32 => uint256) public heartbeats
  timestamp,          \* block.timestamp of the current block
  blockNumber,        \* block.number of the current block
  receipt,            \* receipt of the last transaction or call
  window,             \* Claim receipts since the vacancy/expiry window opened
  masterSince,        \* block.timestamp at which the current master took the role
  CONFIG,             \* per node: the CONFIG object read from process.env
  proc,               \* per node: "running" or "exited" (process.exit)
  ticking,            \* bag of the ticks in progress, each stopped at an await
  last                \* the tick or event callback that has just returned

storage == <<currentMasterMAC, currentMasterHash, heartbeatTimeout,
             sharedKeyAddress, heartbeats>>
chain == <<timestamp, blockNumber>>
vars == <<deployed, currentMasterMAC, currentMasterHash, heartbeatTimeout,
          sharedKeyAddress, heartbeats, timestamp, blockNumber, receipt, window,
          masterSince>>
nodeVars == <<CONFIG, proc, ticking, last>>
allVars == <<vars, nodeVars>>

(* ---- enum State { Idle, Running, Election } ---- *)
Idle == 0
Running == 1
Election == 2

(* ---- events ---- *)
Heartbeat(mac, ts, bn) == [name |-> "Heartbeat", mac |-> mac, a |-> ts, b |-> bn]
MasterElected(mac, ts) == [name |-> "MasterElected", mac |-> mac, a |-> ts, b |-> 0]
HeartbeatTimeoutUpdated(old, new) ==
  [name |-> "HeartbeatTimeoutUpdated", mac |-> "", a |-> old, b |-> new]

(* ---- receipts ---- *)
NoRet == [mac |-> "", ts |-> 0, alive |-> FALSE, state |-> Idle]
Receipt(op, sender, mac, amount, status, logs) ==
  [op |-> op, sender |-> sender, mac |-> mac, amount |-> amount,
   status |-> status, logs |-> logs, ret |-> NoRet]
CallResult(op, sender, mac, status, ret) ==
  [op |-> op, sender |-> sender, mac |-> mac, amount |-> 0,
   status |-> status, logs |-> <<>>, ret |-> ret]

(* ---- view functions ---- *)
\* checked uint256 subtraction of Solidity 0.8: a < b panics
Underflows(a, b) == a < b

getStateStatus ==
  IF currentMasterHash = Bytes32Zero THEN "ok"
  ELSE IF Underflows(timestamp, heartbeats[currentMasterHash]) THEN "Panic"
  ELSE "ok"

\* mutant of getState: the boundary second is left out of the lease
getState_StrictLess ==
  IF currentMasterHash = Bytes32Zero THEN Idle
  ELSE IF timestamp - heartbeats[currentMasterHash] < heartbeatTimeout
       THEN Running
  ELSE Election

getState ==
  IF currentMasterHash = Bytes32Zero THEN Idle
  ELSE IF timestamp - heartbeats[currentMasterHash] <= heartbeatTimeout
       THEN Running
  ELSE Election

isAlive == getState = Running

getNodeHeartbeat(mac) == heartbeats[keccak256(mac)]

\* mutant of getCurrentMaster: alive is computed from the timestamps alone,
\* without the vacancy check of getState
getCurrentMaster_OwnLeaseCheck ==
  [mac |-> currentMasterMAC,
   lastHeartbeat |-> heartbeats[currentMasterHash],
   alive |-> timestamp - heartbeats[currentMasterHash] <= heartbeatTimeout]

getCurrentMaster ==
  [mac |-> currentMasterMAC,
   lastHeartbeat |-> heartbeats[currentMasterHash],
   alive |-> isAlive]

(* ---- modifier onlySharedKey ---- *)
\* mutant of onlySharedKey: any non-zero sender passes
onlySharedKey_AnyNonZero(sender) == sender # ZeroAddress

onlySharedKey(sender) == sender = sharedKeyAddress

(* ---- constructor ---- *)
\* mutant of constructorStatus: the zero address is accepted as shared key
constructorStatus_NoZeroCheck(_heartbeatTimeout, _sharedKeyAddress) ==
  IF _heartbeatTimeout = 0 THEN "InvalidTimeout"
  ELSE "ok"

constructorStatus(_heartbeatTimeout, _sharedKeyAddress) ==
  IF _heartbeatTimeout = 0 THEN "InvalidTimeout"
  ELSE IF _sharedKeyAddress = ZeroAddress THEN "ZeroAddress"
  ELSE "ok"

\* mutant of constructor: the initial master's heartbeat is not recorded
constructor_NoHeartbeat(sender, _heartbeatTimeout, _sharedKeyAddress, _initialMasterMAC) ==
  LET status == constructorStatus(_heartbeatTimeout, _sharedKeyAddress)
      seeded == status = "ok" /\ _initialMasterMAC # ""
      macHash == keccak256(_initialMasterMAC)
  IN /\ timestamp = GenesisTime
     /\ blockNumber = GenesisBlock
     /\ deployed = (status = "ok")
     /\ heartbeatTimeout = IF status = "ok" THEN _heartbeatTimeout ELSE 0
     /\ sharedKeyAddress = IF status = "ok" THEN _sharedKeyAddress ELSE ZeroAddress
     /\ currentMasterMAC = IF seeded THEN _initialMasterMAC ELSE ""
     /\ currentMasterHash = IF seeded THEN macHash ELSE Bytes32Zero
     /\ heartbeats = [h \in Hashes |-> 0]
     /\ receipt = Receipt("constructor", sender, _initialMasterMAC,
                          _heartbeatTimeout, status,
                          IF seeded
                          THEN <<MasterElected(_initialMasterMAC, GenesisTime)>>
                          ELSE <<>>)
     /\ window = IF seeded
                 THEN [open |-> TRUE, expired |-> "",
                       claims |-> <<[mac |-> _initialMasterMAC, status |-> "ok"]>>]
                 ELSE [open |-> status = "ok", expired |-> "", claims |-> <<>>]
     /\ masterSince = IF seeded THEN GenesisTime ELSE 0

constructor(sender, _heartbeatTimeout, _sharedKeyAddress, _initialMasterMAC) ==
  LET status == constructorStatus(_heartbeatTimeout, _sharedKeyAddress)
      seeded == status = "ok" /\ _initialMasterMAC # ""
      macHash == keccak256(_initialMasterMAC)
  IN /\ timestamp = GenesisTime
     /\ blockNumber = GenesisBlock
     /\ deployed = (status = "ok")
     /\ heartbeatTimeout = IF status = "ok" THEN _heartbeatTimeout ELSE 0
     /\ sharedKeyAddress = IF status = "ok" THEN _sharedKeyAddress ELSE ZeroAddress
     /\ currentMasterMAC = IF seeded THEN _initialMasterMAC ELSE ""
     /\ currentMasterHash = IF seeded THEN macHash ELSE Bytes32Zero
     /\ heartbeats = [h \in Hashes |->
                        IF seeded /\ h = macHash THEN GenesisTime ELSE 0]
     /\ receipt = Receipt("constructor", sender, _initialMasterMAC,
                          _heartbeatTimeout, status,
                          IF seeded
                          THEN <<MasterElected(_initialMasterMAC, GenesisTime)>>
                          ELSE <<>>)
     /\ window = IF seeded
                 THEN [open |-> TRUE, expired |-> "",
                       claims |-> <<[mac |-> _initialMasterMAC, status |-> "ok"]>>]
                 ELSE [open |-> status = "ok", expired |-> "", claims |-> <<>>]
     /\ masterSince = IF seeded THEN GenesisTime ELSE 0

(* ---- the node processes (client/index.js): state before any starts ---- *)
\* the nodes of the cluster, each named by its localMAC
Nodes == {MAC_A, MAC_B}

\* a tick that has not awaited anything yet
NewTick(localMAC) ==
  [node |-> localMAC, pc |-> "getCurrentMaster", reads |-> 0,
   masterMAC |-> "", alive |-> FALSE, stateNum |-> Idle,
   branch |-> "none", subs |-> <<>>, outcome |-> "none", failed |-> "none",
   hooks |-> 0, cloud |-> "", logs |-> {}]

NoTick == [NewTick("") EXCEPT !.pc = "none"]

\* CONFIG.contractAddress is the deployed contract or "" (CONTRACT_ADDRESS
\* not set); CONFIG.privateKey is written as the address it signs for,
\* ZeroAddress when PRIVATE_KEY is not set
ContractAddress == "0xChainHeart"
Complete == [contractAddress |-> ContractAddress, privateKey |-> shared]
Configs ==
  {Complete,
   [contractAddress |-> ContractAddress, privateKey |-> stranger],
   [contractAddress |-> "", privateKey |-> shared],
   [contractAddress |-> ContractAddress, privateKey |-> ZeroAddress]}

\* mutant of main: the configuration is not checked
main_NoConfigCheck(config) == "running"

\* main() up to its first await: it throws when CONTRACT_ADDRESS or
\* PRIVATE_KEY is missing, and main().catch ends the process
main(config) ==
  IF config.contractAddress = "" \/ config.privateKey = ZeroAddress
  THEN "exited"
  ELSE "running"

Started(configs) ==
  /\ CONFIG = configs
  /\ proc = [n \in Nodes |-> main(configs[n])]
  /\ ticking = EmptyBag
  /\ last = NoTick

NoNodes == Started([n \in Nodes |-> Complete])

\* any account deploys; the key handed to the constructor is the shared
\* key of the cluster, or the zero address by mistake
Init ==
  /\ \E sender \in Signers, t \in 0..MaxTimeout,
        k \in {ZeroAddress, shared}, m \in Strings :
          constructor(sender, t, k, m)
  /\ NoNodes

(* ---- the election window (history of Claims) ---- *)
\* The window opens when the record is found vacant or expired. It then
\* holds, in commit order, the Claims of the shared key committed since,
\* for as long as the lease of the first winner lasts, and the master whose
\* expiry opened it ("" for a vacancy). A window in which something other
\* than a Claim revived the record is closed.
Record(mac, status) ==
  IF window.open /\ Len(window.claims) < MaxWindow
  THEN [window EXCEPT !.claims = Append(@, [mac |-> mac, status |-> status])]
  ELSE window

WindowAfter(leased) ==
  IF ~leased
  THEN [open |-> TRUE, expired |-> currentMasterMAC, claims |-> <<>>]
  ELSE IF window.open /\ window.claims # <<>> THEN window
  ELSE [open |-> FALSE, expired |-> "", claims |-> <<>>]

(* ---- revert: the transaction's writes and logs are discarded ---- *)
revert(op, sender, mac, amount, status) ==
  /\ UNCHANGED storage
  /\ receipt' = Receipt(op, sender, mac, amount, status, <<>>)

(* ---- sendHeartbeat ---- *)
\* mutant of sendHeartbeatStatus: the identity check is missing
sendHeartbeatStatus_NoIdentityCheck(sender, mac) ==
  IF ~onlySharedKey(sender) THEN "Unauthorized"
  ELSE IF currentMasterHash = Bytes32Zero THEN "NoMasterElected"
  ELSE "ok"

\* mutant of sendHeartbeatStatus: the identity check precedes the vacancy check
sendHeartbeatStatus_IdentityFirst(sender, mac) ==
  IF ~onlySharedKey(sender) THEN "Unauthorized"
  ELSE IF keccak256(mac) # currentMasterHash THEN "OnlyMasterCanHeartbeat"
  ELSE IF currentMasterHash = Bytes32Zero THEN "NoMasterElected"
  ELSE "ok"

sendHeartbeatStatus(sender, mac) ==
  IF ~onlySharedKey(sender) THEN "Unauthorized"
  ELSE IF currentMasterHash = Bytes32Zero THEN "NoMasterElected"
  ELSE IF keccak256(mac) # currentMasterHash THEN "OnlyMasterCanHeartbeat"
  ELSE "ok"

\* mutant of sendHeartbeatWrites: the other nodes' entries are cleared
sendHeartbeatWrites_ClearsOthers(mac) ==
  LET macHash == keccak256(mac)
  IN heartbeats' = [h \in Hashes |-> IF h = macHash THEN timestamp ELSE 0]

\* mutant of sendHeartbeatWrites: block.number is stored instead of
\* block.timestamp
sendHeartbeatWrites_StoresBlockNumber(mac) ==
  LET macHash == keccak256(mac)
  IN heartbeats' = [heartbeats EXCEPT ![macHash] = blockNumber]

sendHeartbeatWrites(mac) ==
  LET macHash == keccak256(mac)
  IN heartbeats' = [heartbeats EXCEPT ![macHash] = timestamp]

sendHeartbeat(sender, mac) ==
  LET status == sendHeartbeatStatus(sender, mac)
  IN /\ deployed
     /\ IF status = "ok"
        THEN /\ sendHeartbeatWrites(mac)
             /\ UNCHANGED <<currentMasterMAC, currentMasterHash,
                            heartbeatTimeout, sharedKeyAddress>>
             /\ receipt' = Receipt("sendHeartbeat", sender, mac, 0, status,
                                   <<Heartbeat(mac, timestamp, blockNumber)>>)
             /\ window' = WindowAfter(TRUE)
        ELSE /\ revert("sendHeartbeat", sender, mac, 0, status)
             /\ window' = window
     /\ UNCHANGED <<deployed, chain, masterSince>>

(* ---- electMaster ---- *)
\* mutant of electMasterStatus: a holder at exactly the timeout can be replaced
electMasterStatus_StrictLess(sender, mac) ==
  IF ~onlySharedKey(sender) THEN "Unauthorized"
  ELSE IF mac = "" THEN "EmptyMAC"
  ELSE IF currentMasterHash # Bytes32Zero
          /\ Underflows(timestamp, heartbeats[currentMasterHash]) THEN "Panic"
  ELSE IF currentMasterHash # Bytes32Zero
          /\ timestamp - heartbeats[currentMasterHash] < heartbeatTimeout
       THEN "MasterStillAlive"
  ELSE "ok"

\* mutant of electMasterStatus: the empty MAC is accepted
electMasterStatus_NoEmptyCheck(sender, mac) ==
  IF ~onlySharedKey(sender) THEN "Unauthorized"
  ELSE IF currentMasterHash # Bytes32Zero
          /\ Underflows(timestamp, heartbeats[currentMasterHash]) THEN "Panic"
  ELSE IF currentMasterHash # Bytes32Zero
          /\ timestamp - heartbeats[currentMasterHash] <= heartbeatTimeout
       THEN "MasterStillAlive"
  ELSE "ok"

\* mutant of electMasterStatus: the current master may re-elect itself at
\* any time
electMasterStatus_HolderExempt(sender, mac) ==
  IF ~onlySharedKey(sender) THEN "Unauthorized"
  ELSE IF mac = "" THEN "EmptyMAC"
  ELSE IF currentMasterHash # Bytes32Zero
          /\ Underflows(timestamp, heartbeats[currentMasterHash]) THEN "Panic"
  ELSE IF currentMasterHash # Bytes32Zero
          /\ keccak256(mac) # currentMasterHash
          /\ timestamp - heartbeats[currentMasterHash] <= heartbeatTimeout
       THEN "MasterStillAlive"
  ELSE "ok"

\* mutant of electMasterStatus: the empty MAC is checked after the lease
electMasterStatus_EmptyAfterLease(sender, mac) ==
  IF ~onlySharedKey(sender) THEN "Unauthorized"
  ELSE IF currentMasterHash # Bytes32Zero
          /\ Underflows(timestamp, heartbeats[currentMasterHash]) THEN "Panic"
  ELSE IF currentMasterHash # Bytes32Zero
          /\ timestamp - heartbeats[currentMasterHash] <= heartbeatTimeout
       THEN "MasterStillAlive"
  ELSE IF mac = "" THEN "EmptyMAC"
  ELSE "ok"

\* mutant of electMasterStatus: the outgoing master is barred from the
\* election that follows its own timeout
electMasterStatus_HolderBarred(sender, mac) ==
  IF ~onlySharedKey(sender) THEN "Unauthorized"
  ELSE IF mac = "" THEN "EmptyMAC"
  ELSE IF currentMasterHash # Bytes32Zero
          /\ Underflows(timestamp, heartbeats[currentMasterHash]) THEN "Panic"
  ELSE IF currentMasterHash # Bytes32Zero
          /\ (\/ timestamp - heartbeats[currentMasterHash] <= heartbeatTimeout
              \/ keccak256(mac) = currentMasterHash)
       THEN "MasterStillAlive"
  ELSE "ok"

electMasterStatus(sender, mac) ==
  IF ~onlySharedKey(sender) THEN "Unauthorized"
  ELSE IF mac = "" THEN "EmptyMAC"
  ELSE IF currentMasterHash # Bytes32Zero
          /\ Underflows(timestamp, heartbeats[currentMasterHash]) THEN "Panic"
  ELSE IF currentMasterHash # Bytes32Zero
          /\ timestamp - heartbeats[currentMasterHash] <= heartbeatTimeout
       THEN "MasterStillAlive"
  ELSE "ok"

\* mutant of electMasterWrites: the winner's heartbeat is not recorded
electMasterWrites_NoHeartbeat(mac) ==
  LET macHash == keccak256(mac)
  IN /\ currentMasterMAC' = mac
     /\ currentMasterHash' = macHash
     /\ heartbeats' = heartbeats

\* mutant of electMasterWrites: the cached hash is not refreshed
electMasterWrites_StaleHash(mac) ==
  LET macHash == keccak256(mac)
  IN /\ currentMasterMAC' = mac
     /\ currentMasterHash' = currentMasterHash
     /\ heartbeats' = [heartbeats EXCEPT ![macHash] = timestamp]

\* mutant of electMasterWrites: the outgoing master's entry is deleted
electMasterWrites_DeletesOld(mac) ==
  LET macHash == keccak256(mac)
  IN /\ currentMasterMAC' = mac
     /\ currentMasterHash' = macHash
     /\ heartbeats' = [h \in Hashes |->
                         IF h = macHash THEN timestamp
                         ELSE IF h = currentMasterHash THEN 0
                         ELSE heartbeats[h]]

\* mutant of electMasterWrites: the entry holds the end of the lease
electMasterWrites_LeaseEnd(mac) ==
  LET macHash == keccak256(mac)
  IN /\ currentMasterMAC' = mac
     /\ currentMasterHash' = macHash
     /\ heartbeats' = [heartbeats EXCEPT ![macHash] = timestamp + heartbeatTimeout]

electMasterWrites(mac) ==
  LET macHash == keccak256(mac)
  IN /\ currentMasterMAC' = mac
     /\ currentMasterHash' = macHash
     /\ heartbeats' = [heartbeats EXCEPT ![macHash] = timestamp]

\* mutant of electMaster: the claimant's heartbeat is written before the
\* lease check and survives the rejection
electMaster_HeartbeatOnReject(sender, mac) ==
  LET status == electMasterStatus(sender, mac)
  IN /\ deployed
     /\ IF status = "ok"
        THEN /\ electMasterWrites(mac)
             /\ UNCHANGED <<heartbeatTimeout, sharedKeyAddress>>
             /\ receipt' = Receipt("electMaster", sender, mac, 0, status,
                                   <<MasterElected(mac, timestamp)>>)
        ELSE IF status = "MasterStillAlive"
        THEN /\ heartbeats' = [heartbeats EXCEPT ![keccak256(mac)] = timestamp]
             /\ UNCHANGED <<currentMasterMAC, currentMasterHash,
                            heartbeatTimeout, sharedKeyAddress>>
             /\ receipt' = Receipt("electMaster", sender, mac, 0, status, <<>>)
        ELSE revert("electMaster", sender, mac, 0, status)
     /\ window' = IF onlySharedKey(sender) /\ mac # ""
                  THEN Record(mac, status) ELSE window
     /\ masterSince' = IF status = "ok" THEN timestamp ELSE masterSince
     /\ UNCHANGED <<deployed, chain>>

electMaster(sender, mac) ==
  LET status == electMasterStatus(sender, mac)
  IN /\ deployed
     /\ IF status = "ok"
        THEN /\ electMasterWrites(mac)
             /\ UNCHANGED <<heartbeatTimeout, sharedKeyAddress>>
             /\ receipt' = Receipt("electMaster", sender, mac, 0, status,
                                   <<MasterElected(mac, timestamp)>>)
        ELSE revert("electMaster", sender, mac, 0, status)
     /\ window' = IF onlySharedKey(sender) /\ mac # ""
                  THEN Record(mac, status) ELSE window
     /\ masterSince' = IF status = "ok" THEN timestamp ELSE masterSince
     /\ UNCHANGED <<deployed, chain>>

(* ---- setHeartbeatTimeout ---- *)
\* mutant of setHeartbeatTimeoutStatus: zero is accepted
setHeartbeatTimeoutStatus_NoZeroCheck(sender, _timeout) ==
  IF ~onlySharedKey(sender) THEN "Unauthorized"
  ELSE "ok"

setHeartbeatTimeoutStatus(sender, _timeout) ==
  IF ~onlySharedKey(sender) THEN "Unauthorized"
  ELSE IF _timeout = 0 THEN "InvalidTimeout"
  ELSE "ok"

\* the holder is within its lease under the given timeout at the given time
Leased(timeout, time) ==
  /\ currentMasterHash # Bytes32Zero
  /\ time - heartbeats[currentMasterHash] <= timeout

\* mutant of setHeartbeatTimeout: the event is emitted but the new value
\* is not stored
setHeartbeatTimeout_NoStore(sender, _timeout) ==
  LET status == setHeartbeatTimeoutStatus(sender, _timeout)
      oldTimeout == heartbeatTimeout
  IN /\ deployed
     /\ IF status = "ok"
        THEN /\ UNCHANGED storage
             /\ receipt' = Receipt("setHeartbeatTimeout", sender, "", _timeout,
                              status, <<HeartbeatTimeoutUpdated(oldTimeout, _timeout)>>)
             /\ window' = WindowAfter(Leased(heartbeatTimeout, timestamp))
        ELSE /\ revert("setHeartbeatTimeout", sender, "", _timeout, status)
             /\ window' = window
     /\ UNCHANGED <<deployed, chain, masterSince>>

\* mutant of setHeartbeatTimeout: a new timeout starts the cluster afresh,
\* without a master
setHeartbeatTimeout_ResetsMaster(sender, _timeout) ==
  LET status == setHeartbeatTimeoutStatus(sender, _timeout)
      oldTimeout == heartbeatTimeout
  IN /\ deployed
     /\ IF status = "ok"
        THEN /\ heartbeatTimeout' = _timeout
             /\ currentMasterMAC' = ""
             /\ currentMasterHash' = Bytes32Zero
             /\ UNCHANGED <<sharedKeyAddress, heartbeats>>
             /\ receipt' = Receipt("setHeartbeatTimeout", sender, "", _timeout,
                              status, <<HeartbeatTimeoutUpdated(oldTimeout, _timeout)>>)
             /\ window' = WindowAfter(Leased(_timeout, timestamp))
        ELSE /\ revert("setHeartbeatTimeout", sender, "", _timeout, status)
             /\ window' = window
     /\ UNCHANGED <<deployed, chain, masterSince>>

setHeartbeatTimeout(sender, _timeout) ==
  LET status == setHeartbeatTimeoutStatus(sender, _timeout)
      oldTimeout == heartbeatTimeout
  IN /\ deployed
     /\ IF status = "ok"
        THEN /\ heartbeatTimeout' = _timeout
             /\ UNCHANGED <<currentMasterMAC, currentMasterHash,
                            sharedKeyAddress, heartbeats>>
             /\ receipt' = Receipt("setHeartbeatTimeout", sender, "", _timeout,
                              status, <<HeartbeatTimeoutUpdated(oldTimeout, _timeout)>>)
             /\ window' = WindowAfter(Leased(_timeout, timestamp))
        ELSE /\ revert("setHeartbeatTimeout", sender, "", _timeout, status)
             /\ window' = window
     /\ UNCHANGED <<deployed, chain, masterSince>>

(* ---- read-only calls (eth_call from any account) ---- *)
CallGetState(sender) ==
  /\ deployed
  /\ receipt' = CallResult("getState", sender, "", getStateStatus,
                           [NoRet EXCEPT !.state = getState])
  /\ UNCHANGED <<deployed, storage, chain, window, masterSince>>

CallIsAlive(sender) ==
  /\ deployed
  /\ receipt' = CallResult("isAlive", sender, "", getStateStatus,
                           [NoRet EXCEPT !.alive = isAlive])
  /\ UNCHANGED <<deployed, storage, chain, window, masterSince>>

CallGetNodeHeartbeat(sender, mac) ==
  /\ deployed
  /\ receipt' = CallResult("getNodeHeartbeat", sender, mac, "ok",
                           [NoRet EXCEPT !.ts = getNodeHeartbeat(mac)])
  /\ UNCHANGED <<deployed, storage, chain, window, masterSince>>

\* mutant of CallGetCurrentMaster: the function is not a view and refreshes
\* the master's heartbeat as it answers
CallGetCurrentMaster_Touches(sender) ==
  /\ deployed
  /\ receipt' = CallResult("getCurrentMaster", sender, "", getStateStatus,
                           [NoRet EXCEPT !.mac = getCurrentMaster.mac,
                                         !.ts = getCurrentMaster.lastHeartbeat,
                                         !.alive = getCurrentMaster.alive])
  /\ heartbeats' = [heartbeats EXCEPT ![currentMasterHash] = timestamp]
  /\ UNCHANGED <<deployed, currentMasterMAC, currentMasterHash, heartbeatTimeout,
                 sharedKeyAddress, chain, window, masterSince>>

CallGetCurrentMaster(sender) ==
  /\ deployed
  /\ receipt' = CallResult("getCurrentMaster", sender, "", getStateStatus,
                           [NoRet EXCEPT !.mac = getCurrentMaster.mac,
                                         !.ts = getCurrentMaster.lastHeartbeat,
                                         !.alive = getCurrentMaster.alive])
  /\ UNCHANGED <<deployed, storage, chain, window, masterSince>>

(* ---- the chain produces the next block ---- *)
NoReceipt == Receipt("block", ZeroAddress, "", 0, "ok", <<>>)

MineBlock(dt) ==
  /\ deployed
  /\ timestamp + dt <= MaxTime
  /\ timestamp' = timestamp + dt
  /\ blockNumber' = blockNumber + 1
  /\ receipt' = NoReceipt
  /\ window' = WindowAfter(Leased(heartbeatTimeout, timestamp + dt))
  /\ UNCHANGED <<deployed, storage, masterSince>>

Next ==
  \/ \E s \in Signers, m \in Strings :
       sendHeartbeat(s, m) /\ UNCHANGED nodeVars
  \/ \E s \in Signers, m \in Strings :
       electMaster(s, m) /\ UNCHANGED nodeVars
  \/ \E s \in Signers, t \in 0..MaxTimeout :
       setHeartbeatTimeout(s, t) /\ UNCHANGED nodeVars
  \/ \E s \in Signers : CallGetState(s) /\ UNCHANGED nodeVars
  \/ \E s \in Signers : CallIsAlive(s) /\ UNCHANGED nodeVars
  \/ \E s \in Signers, m \in Strings :
       CallGetNodeHeartbeat(s, m) /\ UNCHANGED nodeVars
  \/ \E s \in Signers : CallGetCurrentMaster(s) /\ UNCHANGED nodeVars
  \/ \E dt \in 1..MaxStep : MineBlock(dt) /\ UNCHANGED nodeVars

Spec == Init /\ [][Next]_vars

TypeOK ==
  /\ deployed \in BOOLEAN
  /\ currentMasterMAC \in Strings
  /\ currentMasterHash \in Hashes
  /\ heartbeatTimeout \in 0..MaxTimeout
  /\ sharedKeyAddress \in {ZeroAddress} \cup Signers
  /\ heartbeats \in [Hashes -> 0..MaxTime]
  /\ timestamp \in GenesisTime..MaxTime
  /\ window.open \in BOOLEAN
  /\ window.expired \in Strings
  /\ Len(window.claims) <= MaxWindow
  /\ masterSince \in 0..MaxTime

(***************************************************************************)
(* The node client (client/index.js)                                       *)
(***************************************************************************)
\* new ethers.Wallet(CONFIG.privateKey, provider): the account the node
\* signs with
wallet(localMAC) == CONFIG[localMAC].privateKey

(* ---- the decision of a tick, from its two reads ---- *)
\* mutant of tickBranch: any node sends the heartbeat while the master is
\* alive
tickBranch_HeartbeatWhenAlive(localMAC, masterMAC, alive, stateNum) ==
  IF stateNum = Idle THEN "electIdle"
  ELSE IF alive THEN "sendHeartbeat"
  ELSE IF stateNum = Election THEN "electElection"
  ELSE "slave"

\* mutant of tickBranch: no election is called for an expired master
tickBranch_NoElection(localMAC, masterMAC, alive, stateNum) ==
  IF stateNum = Idle THEN "electIdle"
  ELSE IF masterMAC = localMAC /\ alive THEN "sendHeartbeat"
  ELSE "slave"

\* mutant of tickBranch: a node that is not the master calls an election
\* whatever the state
tickBranch_AlwaysElect(localMAC, masterMAC, alive, stateNum) ==
  IF stateNum = Idle THEN "electIdle"
  ELSE IF masterMAC = localMAC /\ alive THEN "sendHeartbeat"
  ELSE "electElection"

tickBranch(localMAC, masterMAC, alive, stateNum) ==
  IF stateNum = Idle THEN "electIdle"
  ELSE IF masterMAC = localMAC /\ alive THEN "sendHeartbeat"
  ELSE IF stateNum = Election THEN "electElection"
  ELSE "slave"

\* the contract function the branch calls, "end" if it calls none
tickCall(branch) ==
  CASE branch = "electIdle" -> "electMaster"
    [] branch = "sendHeartbeat" -> "sendHeartbeat"
    [] branch = "electElection" -> "electMaster"
    [] OTHER -> "end"

(* ---- error handling of a tick ---- *)
\* mutant of catchTick: the error is thrown on, out of the tick
catchTick_Rethrow == [logs |-> {}, exit |-> TRUE]

\* the catch around the whole tick: log and return
catchTick == [logs |-> {"Tick error"}, exit |-> FALSE]

\* the catch around the election of the Election branch: log and go on
catchElection == [logs |-> {"Election failed"}, exit |-> FALSE]

catch(branch) ==
  IF branch = "electElection" THEN catchElection ELSE catchTick

\* mutant of afterSubmit: a failed election of the Election branch is sent
\* again at once
afterSubmit_RetryElection(branch, outcome) ==
  IF outcome = "committed"
  THEN IF branch = "sendHeartbeat"
       THEN [pc |-> "end", logs |-> {"Heartbeat sent"}, exit |-> FALSE]
       ELSE [pc |-> "onElectedMaster", logs |-> {"Election tx confirmed"},
             exit |-> FALSE]
  ELSE IF branch = "electElection"
  THEN [pc |-> "electMaster", logs |-> catch(branch).logs, exit |-> FALSE]
  ELSE [pc |-> "end", logs |-> catch(branch).logs, exit |-> catch(branch).exit]

\* mutant of afterSubmit: the hook of the Election branch is called after
\* the catch, whether or not the election was confirmed
afterSubmit_HookAlways(branch, outcome) ==
  IF outcome = "committed"
  THEN IF branch = "sendHeartbeat"
       THEN [pc |-> "end", logs |-> {"Heartbeat sent"}, exit |-> FALSE]
       ELSE [pc |-> "onElectedMaster", logs |-> {"Election tx confirmed"},
             exit |-> FALSE]
  ELSE IF branch = "electElection"
  THEN [pc |-> "onElectedMaster", logs |-> catch(branch).logs, exit |-> FALSE]
  ELSE [pc |-> "end", logs |-> catch(branch).logs, exit |-> catch(branch).exit]

\* what the tick does once tx.wait() has returned or thrown
afterSubmit(branch, outcome) ==
  IF outcome = "committed"
  THEN IF branch = "sendHeartbeat"
       THEN [pc |-> "end", logs |-> {"Heartbeat sent"}, exit |-> FALSE]
       ELSE [pc |-> "onElectedMaster", logs |-> {"Election tx confirmed"},
             exit |-> FALSE]
  ELSE [pc |-> "end", logs |-> catch(branch).logs, exit |-> catch(branch).exit]

(* ---- the hook ---- *)
\* mutant of onElectedMaster: the provider's failure is not caught
onElectedMaster_NoCatch(cloud) ==
  CASE cloud = "none" -> [threw |-> FALSE, logs |-> {"No cloud provider"}]
    [] cloud = "created" -> [threw |-> FALSE, logs |-> {"Server created"}]
    [] cloud = "failed" -> [threw |-> TRUE, logs |-> {}]

\* cloud: "none" (no provider configured), "created" or "failed" (the
\* provider's createServer resolved or threw); the hook catches the failure
onElectedMaster(cloud) ==
  CASE cloud = "none" -> [threw |-> FALSE, logs |-> {"No cloud provider"}]
    [] cloud = "created" -> [threw |-> FALSE, logs |-> {"Server created"}]
    [] cloud = "failed" ->
         [threw |-> FALSE, logs |-> {"Failed to provision server"}]

\* what the tick does once the hook has returned or thrown
afterHook(branch, hook) ==
  IF hook.threw
  THEN [logs |-> hook.logs \cup catch(branch).logs, exit |-> catch(branch).exit]
  ELSE [logs |-> hook.logs, exit |-> FALSE]

\* the listener of contract.on("MasterElected"): one log line
onMasterElected(localMAC) ==
  [NewTick(localMAC) EXCEPT !.pc = "event", !.logs = {"EVENT"}]

(* ---- a tick moves from one await to the next, or returns ---- *)
\* masterMAC, alive and stateNum are dead once the branch is taken
Awaiting(t) ==
  IF t.pc = "getState" THEN t
  ELSE [t EXCEPT !.masterMAC = "", !.alive = FALSE, !.stateNum = Idle]

\* last shows the tick as it returns, and as it takes its branch
Resume(t, t2, exit) ==
  /\ ticking' = IF t2.pc = "end"
                THEN ticking (-) SetToBag({t})
                ELSE (ticking (-) SetToBag({t})) (+) SetToBag({Awaiting(t2)})
  /\ last' = IF t2.pc = "end" \/ t.pc = "getState" THEN t2 ELSE NoTick
  /\ proc' = IF exit THEN [proc EXCEPT ![t.node] = "exited"] ELSE proc
  /\ UNCHANGED CONFIG

Thrown(t, where, c) ==
  [t EXCEPT !.pc = "end", !.failed = where, !.logs = @ \cup c.logs]

\* setInterval fires (or main calls the first tick): the tick starts and
\* awaits getCurrentMaster()
tickGetCurrentMaster(localMAC) ==
  /\ proc[localMAC] = "running"
  /\ BagCardinality(ticking) < MaxTicks
  /\ deployed
  /\ UNCHANGED <<vars, CONFIG>>
  /\ LET t == NewTick(localMAC)
         t2 == IF getStateStatus = "ok"
               THEN [t EXCEPT !.pc = "getState", !.reads = 1,
                              !.masterMAC = getCurrentMaster.mac,
                              !.alive = getCurrentMaster.alive]
               ELSE Thrown(t, "getCurrentMaster", catchTick)
     IN /\ ticking' = IF t2.pc = "end" THEN ticking
                      ELSE ticking (+) SetToBag({t2})
        /\ last' = IF t2.pc = "end" THEN t2 ELSE NoTick
        /\ proc' = IF t2.pc = "end" /\ catchTick.exit
                   THEN [proc EXCEPT ![localMAC] = "exited"] ELSE proc

\* the same, the provider failing to answer
tickGetCurrentMasterFails(localMAC) ==
  /\ deployed
  /\ proc[localMAC] = "running"
  /\ BagCardinality(ticking) < MaxTicks
  /\ last' = Thrown(NewTick(localMAC), "getCurrentMaster", catchTick)
  /\ proc' = IF catchTick.exit
             THEN [proc EXCEPT ![localMAC] = "exited"] ELSE proc
  /\ UNCHANGED <<vars, CONFIG, ticking>>

\* getState() answers and the tick takes its branch, up to the next await
tickGetState(t) ==
  /\ BagIn(t, ticking)
  /\ t.pc = "getState"
  /\ UNCHANGED vars
  /\ LET stateNum == getState
         branch == tickBranch(t.node, t.masterMAC, t.alive, stateNum)
         t2 == IF getStateStatus = "ok"
               THEN [t EXCEPT !.pc = tickCall(branch), !.reads = 2,
                              !.stateNum = stateNum, !.branch = branch,
                              !.logs = IF branch = "slave"
                                       THEN {"I am a slave"} ELSE {}]
               ELSE Thrown(t, "getState", catchTick)
     IN Resume(t, t2, t2.failed # "none" /\ catchTick.exit)

tickGetStateFails(t) ==
  /\ BagIn(t, ticking)
  /\ t.pc = "getState"
  /\ Resume(t, Thrown(t, "getState", catchTick), catchTick.exit)
  /\ UNCHANGED vars

\* the transaction of the tick is mined and tx.wait() returns or throws
tickSubmit(t) ==
  /\ BagIn(t, ticking)
  /\ t.pc \in {"electMaster", "sendHeartbeat"}
  /\ IF t.pc = "electMaster"
     THEN electMaster(wallet(t.node), t.node)
     ELSE sendHeartbeat(wallet(t.node), t.node)
  /\ LET outcome == IF receipt'.status = "ok" THEN "committed" ELSE "rejected"
         a == afterSubmit(t.branch, outcome)
         t2 == [t EXCEPT !.pc = a.pc, !.subs = Append(@, t.pc),
                         !.outcome = outcome, !.logs = @ \cup a.logs]
     IN Resume(t, t2, a.exit)

\* the transaction is mined but its confirmation never reaches the node
tickSubmitUnconfirmed(t) ==
  /\ BagIn(t, ticking)
  /\ t.pc \in {"electMaster", "sendHeartbeat"}
  /\ IF t.pc = "electMaster"
     THEN electMaster(wallet(t.node), t.node)
     ELSE sendHeartbeat(wallet(t.node), t.node)
  /\ LET a == afterSubmit(t.branch, "transport")
         t2 == [t EXCEPT !.pc = a.pc, !.subs = Append(@, t.pc),
                         !.outcome = "transport", !.failed = t.pc,
                         !.logs = @ \cup a.logs]
     IN Resume(t, t2, a.exit)

\* the transaction never reaches the chain
tickSubmitFails(t) ==
  /\ BagIn(t, ticking)
  /\ t.pc \in {"electMaster", "sendHeartbeat"}
  /\ LET a == afterSubmit(t.branch, "transport")
         t2 == [t EXCEPT !.pc = a.pc, !.subs = Append(@, t.pc),
                         !.outcome = "transport", !.failed = t.pc,
                         !.logs = @ \cup a.logs]
     IN Resume(t, t2, a.exit)
  /\ UNCHANGED vars

\* the hook returns or throws, and the tick with it
tickOnElectedMaster(t, cloud) ==
  /\ BagIn(t, ticking)
  /\ t.pc = "onElectedMaster"
  /\ LET a == afterHook(t.branch, onElectedMaster(cloud))
         t2 == [t EXCEPT !.pc = "end", !.hooks = @ + 1, !.cloud = cloud,
                         !.logs = @ \cup a.logs]
     IN Resume(t, t2, a.exit)
  /\ UNCHANGED vars

\* mutant of listenMasterElected: the listener answers the event with an
\* election of its own
listenMasterElected_Elects(localMAC) ==
  /\ deployed
  /\ ~(currentMasterHash = Bytes32Zero)
  /\ proc[localMAC] = "running"
  /\ electMaster(wallet(localMAC), localMAC)
  /\ last' = [onMasterElected(localMAC) EXCEPT !.subs = <<"electMaster">>]
  /\ UNCHANGED <<CONFIG, proc, ticking>>

\* the provider hands a MasterElected log of the contract to the node's
\* listener: at any time after the log was emitted, between any two steps
\* of the ticks, and again whenever the provider replays its filter
listenMasterElected(localMAC) ==
  /\ deployed
  /\ ~(currentMasterHash = Bytes32Zero)
  /\ proc[localMAC] = "running"
  /\ last' = onMasterElected(localMAC)
  /\ UNCHANGED <<vars, CONFIG, proc, ticking>>

\* the chain moves on while the nodes run
nodeMineBlock(dt) ==
  /\ timestamp + dt <= NodeMaxTime
  /\ MineBlock(dt)
  /\ last' = NoTick
  /\ UNCHANGED <<CONFIG, proc, ticking>>

\* the cluster's contract: deployed by the shared key, with or without an
\* initial master; one node is configured as the deployment expects, the
\* other with any .env
NodeInit ==
  /\ \E t \in 1..MaxTimeout, m \in {"", MAC_A} :
       constructor(shared, t, shared, m)
  /\ \E config \in Configs :
       Started([n \in Nodes |-> IF n = MAC_A THEN Complete ELSE config])

NodeNext ==
  \/ \E n \in Nodes : tickGetCurrentMaster(n)
  \/ \E n \in Nodes : tickGetCurrentMasterFails(n)
  \/ \E t \in BagToSet(ticking) : tickGetState(t)
  \/ \E t \in BagToSet(ticking) : tickGetStateFails(t)
  \/ \E t \in BagToSet(ticking) : tickSubmit(t)
  \/ \E t \in BagToSet(ticking) : tickSubmitUnconfirmed(t)
  \/ \E t \in BagToSet(ticking) : tickSubmitFails(t)
  \/ \E t \in BagToSet(ticking), cloud \in {"none", "created", "failed"} :
       tickOnElectedMaster(t, cloud)
  \/ \E n \in Nodes : listenMasterElected(n)
  \/ \E dt \in 1..MaxStep : nodeMineBlock(dt)

NodeSpec == NodeInit /\ [][NodeNext]_allVars

NodeTypeOK ==
  /\ TypeOK
  /\ CONFIG \in [Nodes -> Configs]
  /\ proc \in [Nodes -> {"running", "exited"}]
  /\ IsABag(ticking)
  /\ BagCardinality(ticking) <= MaxTicks
  /\ \A t \in BagToSet(ticking) :
       /\ t.node \in Nodes
       /\ t.pc \in {"getState", "electMaster", "sendHeartbeat", "onElectedMaster"}
  /\ last.pc \in {"none", "end", "event", "electMaster", "sendHeartbeat"}

(***************************************************************************)
(* Properties                                                              *)
(***************************************************************************)
IsTx(r) == r.op \in {"sendHeartbeat", "electMaster", "setHeartbeatTimeout"}
IsView(r) == r.op \in {"getState", "isAlive", "getNodeHeartbeat", "getCurrentMaster"}
\* a Claim / Renew as the nodes submit it: signed with the shared key
IsClaim(r) == r.op = "electMaster" /\ r.sender = sharedKeyAddress /\ r.mac # ""
IsRenew(r) == r.op = "sendHeartbeat" /\ r.sender = sharedKeyAddress
Vacant == currentMasterHash = Bytes32Zero
Elapsed == timestamp - heartbeats[currentMasterHash]

\* C1 - Mutual exclusion: of the Claims committed in one vacancy/expiry
\* window, the first in the ledger's order succeeds, every later one fails
\* with MasterStillAlive, and the holder is the identity of the first.
C1_MutualExclusion ==
  window.claims # <<>> =>
    /\ window.claims[1].status = "ok"
    /\ \A i \in 2..Len(window.claims) : window.claims[i].status = "MasterStillAlive"
    /\ currentMasterMAC = window.claims[1].mac

\* C1 witness: the record had expired, two different nodes claimed, and the
\* second claim has just been rejected.
C1_Witness ==
  /\ Len(window.claims) = 2
  /\ window.claims[1].mac # window.claims[2].mac
  /\ receipt.op = "electMaster"
  /\ receipt.status = "MasterStillAlive"
  /\ \E m \in MACs : m # currentMasterMAC /\ heartbeats[keccak256(m)] # 0

\* C2 - Claim precondition: a Claim by the shared key with a non-empty MAC
\* succeeds iff the record is vacant or timestamp - heartbeats[holder] >
\* heartbeatTimeout; in every other state it fails with MasterStillAlive.
C2_ClaimPrecondition ==
  [][IsClaim(receipt') =>
       /\ (receipt'.status = "ok") <=> (Vacant \/ Elapsed > heartbeatTimeout)
       /\ receipt'.status \in {"ok", "MasterStillAlive"}]_vars

\* C2 witness: the holder itself claimed at elapsed time exactly equal to
\* the timeout and was rejected.
C2_Witness ==
  /\ IsClaim(receipt)
  /\ receipt.status = "MasterStillAlive"
  /\ receipt.mac = currentMasterMAC
  /\ Elapsed = heartbeatTimeout

\* C3 - Claim effect: after a successful electMaster(mac) at time now the
\* holder is mac, the cached hash is keccak256(mac), heartbeats[hash] = now,
\* the receipt holds exactly one MasterElected(mac, now), getState() is
\* Running and getCurrentMaster() is (mac, now, true).
C3_ClaimEffect ==
  (receipt.op = "electMaster" /\ receipt.status = "ok") =>
    /\ currentMasterMAC = receipt.mac
    /\ currentMasterHash = keccak256(receipt.mac)
    /\ heartbeats[keccak256(receipt.mac)] = timestamp
    /\ receipt.logs = <<MasterElected(receipt.mac, timestamp)>>
    /\ getState = Running
    /\ getCurrentMaster = [mac |-> receipt.mac, lastHeartbeat |-> timestamp,
                           alive |-> TRUE]

\* C3 witness: a Claim has just replaced an expired holder by another node.
C3_Witness ==
  /\ receipt.op = "electMaster"
  /\ receipt.status = "ok"
  /\ timestamp > GenesisTime
  /\ \E m \in MACs : m # receipt.mac /\ heartbeats[keccak256(m)] # 0

\* C4 - Liveness boundary: getState() answers Idle when the hash is zero,
\* Running when the elapsed time since the holder's last heartbeat is in
\* 0..heartbeatTimeout (boundary included), Election from timeout + 1 on;
\* isAlive() answers true exactly in the Running case.
C4_LivenessBoundary ==
  /\ receipt.op = "getState" =>
       receipt.ret.state = (IF Vacant THEN Idle
                            ELSE IF Elapsed \in 0..heartbeatTimeout THEN Running
                            ELSE Election)
  /\ receipt.op = "isAlive" =>
       (receipt.ret.alive <=> (~Vacant /\ Elapsed \in 0..heartbeatTimeout))
  /\ (receipt.op = "isAlive" /\ ~Vacant /\ Elapsed >= heartbeatTimeout + 1) =>
       ~receipt.ret.alive

\* C4 witness: isAlive() answered true at elapsed time exactly the timeout.
C4_Witness ==
  /\ receipt.op = "isAlive"
  /\ receipt.ret.alive
  /\ Elapsed = heartbeatTimeout

\* C5 - Renewal identity check: on a non-vacant record sendHeartbeat(x) by
\* the shared key fails with OnlyMasterCanHeartbeat whenever keccak256(x)
\* differs from the holder's hash, also when x held the role before, and
\* the storage is left as it was.
C5_RenewIdentityCheck ==
  [][(IsRenew(receipt') /\ ~Vacant /\ keccak256(receipt'.mac) # currentMasterHash) =>
       /\ receipt'.status = "OnlyMasterCanHeartbeat"
       /\ UNCHANGED storage]_vars

\* C5 witness: a former holder's heartbeat was rejected after a failover.
C5_Witness ==
  /\ receipt.op = "sendHeartbeat"
  /\ receipt.status = "OnlyMasterCanHeartbeat"
  /\ receipt.mac # ""
  /\ heartbeats[keccak256(receipt.mac)] # 0

\* C6 - Renew on a vacant record: sendHeartbeat by the shared key fails with
\* NoMasterElected for every identity, and writes no heartbeat.
C6_RenewVacant ==
  [][(IsRenew(receipt') /\ Vacant) =>
       /\ receipt'.status = "NoMasterElected"
       /\ UNCHANGED heartbeats]_vars

\* C6 witness: a heartbeat with a non-empty MAC was rejected on a vacant
\* record.
C6_Witness ==
  /\ receipt.op = "sendHeartbeat"
  /\ receipt.status = "NoMasterElected"
  /\ receipt.mac # ""
  /\ Vacant

\* C7 - Renew effect: a successful sendHeartbeat(mac) at time now sets
\* heartbeats[keccak256(mac)] = now, emits one Heartbeat(mac, now,
\* block.number), and changes no other storage.
C7_RenewEffect ==
  [][(receipt'.op = "sendHeartbeat" /\ receipt'.status = "ok") =>
       /\ heartbeats' = [heartbeats EXCEPT ![keccak256(receipt'.mac)] = timestamp]
       /\ receipt'.logs = <<Heartbeat(receipt'.mac, timestamp, blockNumber)>>
       /\ UNCHANGED <<currentMasterMAC, currentMasterHash, heartbeatTimeout,
                      sharedKeyAddress>>]_vars

\* C7 witness: a heartbeat moved the holder's timestamp forward while a
\* former holder's entry is on record.
C7_Witness ==
  /\ receipt.op = "sendHeartbeat"
  /\ receipt.status = "ok"
  /\ heartbeats[currentMasterHash] = timestamp
  /\ timestamp > GenesisTime
  /\ \E m \in MACs : m # currentMasterMAC /\ heartbeats[keccak256(m)] # 0

\* C8 - Renew is a self-loop on Running only: a sendHeartbeat commits only
\* when getState() is Running, and leaves getState() as it was.
C8_RenewSelfLoop ==
  [][(receipt'.op = "sendHeartbeat" /\ receipt'.status = "ok") =>
       /\ getState = Running
       /\ getState' = getState]_vars

\* C9 - Access control: electMaster, sendHeartbeat and setHeartbeatTimeout
\* from any sender other than sharedKeyAddress fail with Unauthorized and
\* leave the storage unchanged; the view functions answer any caller.
C9_AccessControl ==
  [][/\ (IsTx(receipt') /\ receipt'.sender # sharedKeyAddress) =>
          /\ receipt'.status = "Unauthorized"
          /\ receipt'.logs = <<>>
          /\ UNCHANGED storage
     /\ IsView(receipt') => (receipt'.status = "ok" /\ UNCHANGED storage)]_vars

\* C9 witness: a sender that is not the shared key was refused an election
\* the shared key would have won.
C9_Witness ==
  /\ receipt.op = "electMaster"
  /\ receipt.sender # sharedKeyAddress
  /\ receipt.status = "Unauthorized"
  /\ receipt.mac # ""
  /\ getState = Election

\* C10 - Atomic rejection: a transaction that reverts, whatever the error,
\* leaves the whole storage as it was and emits no event.
C10_AtomicRejection ==
  [][(IsTx(receipt') /\ receipt'.status # "ok") =>
       /\ UNCHANGED storage
       /\ receipt'.logs = <<>>]_vars

\* C10 witness: a setHeartbeatTimeout(0) by the shared key was rejected on
\* a record that has a holder.
C10_Witness ==
  /\ receipt.op = "setHeartbeatTimeout"
  /\ receipt.status = "InvalidTimeout"
  /\ ~Vacant
  /\ heartbeatTimeout > 0

\* C11 - History preservation: an electMaster or sendHeartbeat for a MAC
\* changes no heartbeat entry but that MAC's own, so getNodeHeartbeat of a
\* former master keeps answering its last timestamp through the failover
\* and through the new master's heartbeats.
C11_HistoryPreservation ==
  [][receipt'.op \in {"electMaster", "sendHeartbeat"} =>
       \A m \in Strings :
          m # receipt'.mac => getNodeHeartbeat(m)' = getNodeHeartbeat(m)]_vars

\* C11 witness: after a failover the new master has sent a heartbeat, and
\* the former master's entry still shows a time from before its lease ran
\* out.
C11_Witness ==
  /\ receipt.op = "sendHeartbeat"
  /\ receipt.status = "ok"
  /\ masterSince > GenesisTime
  /\ heartbeats[currentMasterHash] > masterSince
  /\ \E m \in MACs : /\ m # currentMasterMAC
                     /\ getNodeHeartbeat(m) # 0
                     /\ getNodeHeartbeat(m) < masterSince - heartbeatTimeout

\* C12 - Timeout reconfiguration: when the master is within its lease with
\* elapsed time e and setHeartbeatTimeout(t) commits with t < e, getState()
\* is Election and isAlive() is false at once, the next read says so, and
\* an electMaster that follows succeeds.
C12_TimeoutReconfiguration ==
  [][/\ (/\ receipt'.op = "setHeartbeatTimeout"
         /\ receipt'.status = "ok"
         /\ getState = Running
         /\ receipt'.amount < Elapsed) =>
           (getState' = Election /\ ~isAlive')
     /\ (/\ receipt.op = "setHeartbeatTimeout"
         /\ receipt.status = "ok"
         /\ ~Vacant
         /\ receipt.amount < Elapsed) =>
           /\ IsClaim(receipt') => receipt'.status = "ok"
           /\ receipt'.op = "getState" => receipt'.ret.state = Election
           /\ receipt'.op = "isAlive" => ~receipt'.ret.alive]_vars

\* C12 witness: a master that was within the old timeout is past the new,
\* shorter one right after setHeartbeatTimeout.
C12_Witness ==
  /\ receipt.op = "setHeartbeatTimeout"
  /\ receipt.status = "ok"
  /\ ~Vacant
  /\ Elapsed <= receipt.logs[1].a
  /\ receipt.amount < Elapsed

\* C13 - Timeout invariant: heartbeatTimeout > 0 in every state of a deployed
\* contract; deployment with timeout 0 reverts with InvalidTimeout; by the
\* shared key setHeartbeatTimeout(0) reverts with InvalidTimeout and keeps
\* the timeout, setHeartbeatTimeout(s), s > 0, stores s and emits
\* HeartbeatTimeoutUpdated(old, s) without touching master or heartbeats.
C13_TimeoutInvariant ==
  /\ [](deployed => heartbeatTimeout > 0)
  /\ []((receipt.op = "constructor" /\ receipt.amount = 0) =>
          (receipt.status = "InvalidTimeout" /\ ~deployed))
  /\ [][(receipt'.op = "setHeartbeatTimeout" /\ receipt'.sender = sharedKeyAddress) =>
          IF receipt'.amount = 0
          THEN /\ receipt'.status = "InvalidTimeout"
               /\ UNCHANGED heartbeatTimeout
          ELSE /\ receipt'.status = "ok"
               /\ heartbeatTimeout' = receipt'.amount
               /\ receipt'.logs =
                    <<HeartbeatTimeoutUpdated(heartbeatTimeout, receipt'.amount)>>
               /\ UNCHANGED <<currentMasterMAC, currentMasterHash, heartbeats>>]_vars

\* C13 witness: the shared key has changed the timeout to a different
\* value while a master is on record.
C13_Witness ==
  /\ receipt.op = "setHeartbeatTimeout"
  /\ receipt.status = "ok"
  /\ receipt.logs[1].a # receipt.logs[1].b
  /\ heartbeatTimeout = receipt.logs[1].b
  /\ ~Vacant

\* C14 - Vacancy invariant: currentMasterHash is zero iff currentMasterMAC
\* is the empty string, and a non-zero currentMasterHash is the keccak256
\* of currentMasterMAC.
C14_VacancyInvariant ==
  /\ (currentMasterHash = Bytes32Zero) <=> (currentMasterMAC = "")
  /\ currentMasterHash # Bytes32Zero =>
       currentMasterHash = keccak256(currentMasterMAC)

\* C14 witness: the shared key tried to elect the empty MAC over an expired
\* master and was refused.
C14_Witness ==
  /\ receipt.op = "electMaster"
  /\ receipt.sender = sharedKeyAddress
  /\ receipt.status = "EmptyMAC"
  /\ getState = Election

\* C15 - Holder liveness entry: whenever a master is on record, its
\* heartbeats entry is non-zero and not earlier than the time at which it
\* took the role (by electMaster or in the constructor).
C15_HolderLivenessEntry ==
  ~Vacant =>
    /\ heartbeats[currentMasterHash] # 0
    /\ heartbeats[currentMasterHash] >= masterSince

\* C15 witness: a master elected after deployment has renewed at a later
\* time.
C15_Witness ==
  /\ ~Vacant
  /\ masterSince > GenesisTime
  /\ heartbeats[currentMasterHash] > masterSince

\* C16 - heartbeats is append/overwrite only: block.timestamp never goes
\* back, no entry is ever reset to zero or lowered, and every write stores
\* the current block.timestamp.
C16_AppendOverwriteOnly ==
  [][/\ timestamp' >= timestamp
     /\ \A h \in Hashes :
          /\ heartbeats'[h] >= heartbeats[h]
          /\ heartbeats[h] # 0 => heartbeats'[h] # 0
          /\ heartbeats'[h] # heartbeats[h] => heartbeats'[h] = timestamp']_vars

\* C16 witness: a heartbeat has overwritten the master's entry in a block
\* whose number differs from its timestamp, with a second entry on record.
C16_Witness ==
  /\ receipt.op = "sendHeartbeat"
  /\ receipt.status = "ok"
  /\ masterSince < timestamp
  /\ blockNumber # timestamp
  /\ \E h \in Hashes : h # currentMasterHash /\ heartbeats[h] # 0

C18_IdempotentReads_Claimed ==
  [][UNCHANGED storage =>
       (getState' = getState /\ getCurrentMaster' = getCurrentMaster)]_vars

\* C18 (amended) - Idempotent reads: a read changes neither storage nor
\* chain; a read repeated right after itself returns the same result; and
\* across every step that changes neither the storage nor block.timestamp,
\* getState() and getCurrentMaster() answer the same as before.
C18_IdempotentReads ==
  [][/\ IsView(receipt') => UNCHANGED <<storage, chain>>
     /\ (/\ IsView(receipt)
         /\ receipt'.op = receipt.op
         /\ receipt'.mac = receipt.mac) =>
           (receipt'.ret = receipt.ret /\ receipt'.status = receipt.status)
     /\ UNCHANGED <<storage, timestamp>> =>
          (getState' = getState /\ getCurrentMaster' = getCurrentMaster)]_vars

\* C18 witness: another account has read getCurrentMaster() of an expired
\* master.
C18_Witness ==
  /\ receipt.op = "getCurrentMaster"
  /\ receipt.sender # sharedKeyAddress
  /\ receipt.ret.mac # ""
  /\ ~receipt.ret.alive
  /\ receipt.ret.ts # 0

\* C19 - No takeover from a renewing master: for as long as the master's
\* last heartbeat is no older than heartbeatTimeout, getState() stays
\* Running, every electMaster of the shared key reverts with
\* MasterStillAlive, and the master does not change.
C19_NoTakeover ==
  [][(/\ getState = Running
      /\ timestamp' - heartbeats'[currentMasterHash] <= heartbeatTimeout') =>
        /\ getState' = Running
        /\ currentMasterMAC' = currentMasterMAC
        /\ currentMasterHash' = currentMasterHash
        /\ IsClaim(receipt') => receipt'.status = "MasterStillAlive"]_vars

\* C19 witness: a master that has stayed past its first lease by renewing
\* has just seen another node's electMaster rejected.
C19_Witness ==
  /\ IsClaim(receipt)
  /\ receipt.status = "MasterStillAlive"
  /\ receipt.mac # currentMasterMAC
  /\ heartbeats[currentMasterHash] > masterSince
  /\ timestamp > masterSince + heartbeatTimeout

\* C20 - Record creation: deployment with a non-empty initial MAC leaves
\* that MAC as master, its heartbeat at the deployment time, getState()
\* Running, one MasterElected event, and a sendHeartbeat of that MAC is
\* accepted right away; deployment with the empty MAC leaves Idle,
\* getCurrentMaster() = ("", 0, false) and no event.
C20_RecordCreation ==
  /\ []((receipt.op = "constructor" /\ receipt.status = "ok") =>
          IF receipt.mac # ""
          THEN /\ currentMasterMAC = receipt.mac
               /\ getNodeHeartbeat(receipt.mac) = timestamp
               /\ getState = Running
               /\ receipt.logs = <<MasterElected(receipt.mac, timestamp)>>
          ELSE /\ getState = Idle
               /\ getCurrentMaster = [mac |-> "", lastHeartbeat |-> 0,
                                      alive |-> FALSE]
               /\ receipt.logs = <<>>)
  /\ [][(/\ receipt.op = "constructor"
         /\ receipt.mac # ""
         /\ IsRenew(receipt')
         /\ receipt'.mac = receipt.mac) => receipt'.status = "ok"]_vars

\* C20 witness: the contract has just been deployed with an initial master
\* by an account that is not the shared key.
C20_Witness ==
  /\ receipt.op = "constructor"
  /\ receipt.status = "ok"
  /\ receipt.mac # ""
  /\ receipt.sender # sharedKeyAddress
  /\ currentMasterMAC = receipt.mac

\* C21 - Authorized signer invariant: sharedKeyAddress is the key given to
\* the constructor, it is never the zero address in a deployed contract (a
\* deployment with the zero address reverts: with ZeroAddress whenever the
\* timeout, which is checked first, is valid), and no sequence of
\* electMaster, sendHeartbeat and setHeartbeatTimeout changes it.
C21_AuthorizedSignerInvariant ==
  /\ deployed => sharedKeyAddress = shared /\ sharedKeyAddress # ZeroAddress
  /\ ~deployed =>
       /\ receipt.op = "constructor"
       /\ receipt.status \in {"InvalidTimeout", "ZeroAddress"}
       /\ receipt.amount # 0 => receipt.status = "ZeroAddress"
       /\ sharedKeyAddress = ZeroAddress

\* C21 witness: the shared key has elected a master, renewed its heartbeat
\* and has just changed the timeout.
C21_Witness ==
  /\ receipt.op = "setHeartbeatTimeout"
  /\ receipt.status = "ok"
  /\ ~Vacant
  /\ masterSince < heartbeats[currentMasterHash]
  /\ masterSince > GenesisTime

\* C22 (as claimed) - every mutating operation, the constructor's initial
\* election included, commits only for a caller equal to the shared key.
C22_CallerMatchesSigner_Claimed ==
  /\ (IsTx(receipt) /\ receipt.status = "ok") =>
       receipt.sender = sharedKeyAddress
  /\ (receipt.op = "constructor" /\ deployed /\ currentMasterMAC # "") =>
       receipt.sender = sharedKeyAddress

\* C22 (amended) - electMaster, sendHeartbeat and setHeartbeatTimeout revert
\* with Unauthorized exactly when the caller is not the shared key; the
\* constructor checks no caller: whoever deploys, the contract is created
\* with the key and the initial master handed to it.
C22_CallerMatchesSigner ==
  /\ IsTx(receipt) =>
       (receipt.status = "Unauthorized" <=> receipt.sender # sharedKeyAddress)
  /\ (receipt.op = "constructor" /\ deployed) =>
       /\ receipt.status = "ok"
       /\ currentMasterMAC = receipt.mac
       /\ sharedKeyAddress = shared
       /\ receipt.sender \in Signers

\* C22 witness: an account other than the shared key has deployed the
\* contract with an initial master.
C22_Witness ==
  /\ receipt.op = "constructor"
  /\ deployed
  /\ receipt.sender # sharedKeyAddress
  /\ currentMasterMAC = MAC_A
  /\ getState = Running

\* C23 - Empty identity: electMaster("") by the shared key reverts with
\* EmptyMAC in every state and logs nothing; a committed electMaster never
\* leaves the record vacant.
C23_EmptyIdentity ==
  /\ (receipt.op = "electMaster" /\ receipt.sender = sharedKeyAddress
      /\ receipt.mac = "") =>
       /\ receipt.status = "EmptyMAC"
       /\ receipt.logs = <<>>
  /\ (receipt.op = "electMaster" /\ receipt.status = "ok") =>
       /\ currentMasterMAC # ""
       /\ currentMasterHash # Bytes32Zero
       /\ getState # Idle

\* C23 witness: the empty MAC has just been rejected while the holder's
\* lease was running (the lease check alone would have rejected it too).
C23_Witness ==
  /\ receipt.op = "electMaster"
  /\ receipt.sender = sharedKeyAddress
  /\ receipt.mac = ""
  /\ receipt.status = "EmptyMAC"
  /\ getState = Running

\* C24 - Self re-claim: when the recorded master's lease has expired, an
\* electMaster with its own MAC succeeds, the master stays the same,
\* heartbeats[its hash] becomes the current, strictly later block.timestamp
\* and one MasterElected event is emitted.
C24_SelfReclaim ==
  [][(/\ IsClaim(receipt')
      /\ receipt'.mac = currentMasterMAC
      /\ getState = Election) =>
        /\ receipt'.status = "ok"
        /\ currentMasterMAC' = currentMasterMAC
        /\ currentMasterHash' = currentMasterHash
        /\ heartbeats'[currentMasterHash] = timestamp'
        /\ heartbeats'[currentMasterHash] > heartbeats[currentMasterHash]
        /\ receipt'.logs = <<MasterElected(currentMasterMAC, timestamp')>>
        /\ getState' = Running]_vars

\* C24 witness: the master has just been re-elected on its own claim, later
\* than its previous election.
C24_Witness ==
  /\ IsClaim(receipt)
  /\ receipt.status = "ok"
  /\ Len(window.claims) = 1
  /\ window.expired = receipt.mac
  /\ currentMasterMAC = receipt.mac
  /\ heartbeats[currentMasterHash] = timestamp

\* C25 - isAlive and getCurrentMaster agree with getState: isAlive() is
\* getState() = Running, getCurrentMaster() is (currentMasterMAC,
\* getNodeHeartbeat(currentMasterMAC), isAlive()), and ("", 0, false) when
\* no master was ever elected; the calls return these values.
C25_ReadsAgree ==
  /\ isAlive <=> (getState = Running)
  /\ getCurrentMaster = [mac |-> currentMasterMAC,
                         lastHeartbeat |-> getNodeHeartbeat(currentMasterMAC),
                         alive |-> isAlive]
  /\ Vacant => getCurrentMaster = [mac |-> "", lastHeartbeat |-> 0,
                                   alive |-> FALSE]
  /\ receipt.op = "isAlive" => (receipt.ret.alive <=> (getState = Running))
  /\ receipt.op = "getCurrentMaster" =>
       /\ receipt.ret.mac = currentMasterMAC
       /\ receipt.ret.ts = getNodeHeartbeat(currentMasterMAC)
       /\ receipt.ret.alive <=> (getState = Running)

\* C25 witness: getCurrentMaster() has just answered for a master that was
\* elected after a failover and whose lease has expired.
C25_Witness ==
  /\ receipt.op = "getCurrentMaster"
  /\ receipt.ret.mac # ""
  /\ ~receipt.ret.alive
  /\ receipt.ret.ts > GenesisTime
  /\ \E m \in MACs : m # currentMasterMAC /\ heartbeats[keccak256(m)] # 0

(* ---- the node client ---- *)
InFlight == BagToSet(ticking)
\* last shows a tick that has just taken its branch, both reads done
Decided(t) ==
  /\ t.pc \in {"end", "electMaster", "sendHeartbeat"}
  /\ t.reads = 2
  /\ t.failed = "none"
  /\ t.subs = <<>>
\* last shows a tick that has just returned
Returned(t) == t.pc = "end"
Errors == {"Tick error", "Election failed"}

\* C26 (as claimed) - Decision table: the branch of a tick is chosen by the
\* state read with getState() in that tick and by masterMAC = localMAC:
\* Idle -> electMaster; Running and master -> sendHeartbeat; Running and
\* not master -> nothing; Election -> electMaster; also when the contract
\* changes between getCurrentMaster() and getState().
C26_DecisionTable ==
  Decided(last) =>
    LET self == last.masterMAC = last.node
    IN /\ last.stateNum = Idle => last.pc = "electMaster"
       /\ (last.stateNum = Running /\ self) => last.pc = "sendHeartbeat"
       /\ (last.stateNum = Running /\ ~self) => last.pc = "end"
       /\ last.stateNum = Election => last.pc = "electMaster"

\* C27 - At most one submission per tick: a tick sends at most one of
\* electMaster and sendHeartbeat, whatever the outcome: after its
\* transaction it only runs the hook or returns.
C27_OneSubmissionPerTick ==
  /\ \A t \in InFlight :
       /\ Len(t.subs) <= 1
       /\ t.pc \in {"getState", "electMaster", "sendHeartbeat"} => t.subs = <<>>
       /\ t.pc = "onElectedMaster" => t.subs = <<"electMaster">>
  /\ Len(last.subs) <= 1
  /\ (Returned(last) /\ last.outcome # "none") => Len(last.subs) = 1

\* C27 witness: a tick has returned after its one electMaster was rejected.
C27_Witness ==
  /\ Returned(last)
  /\ last.subs = <<"electMaster">>
  /\ last.outcome = "rejected"
  /\ receipt.status = "MasterStillAlive"

\* C28 - Post-election hook: onElectedMaster runs once in a tick whose
\* electMaster was confirmed, after the confirmation, and in no other tick:
\* not after a rejected or failed electMaster, not after sendHeartbeat, not
\* in the MasterElected listener.
C28_PostElectionHook ==
  /\ \A t \in InFlight :
       /\ t.hooks = 0
       /\ t.pc = "onElectedMaster" =>
            /\ t.subs = <<"electMaster">>
            /\ t.outcome = "committed"
            /\ heartbeats[keccak256(t.node)] # 0
  /\ Returned(last) =>
       /\ last.hooks \in {0, 1}
       /\ last.hooks = 1 <=>
            (last.subs = <<"electMaster">> /\ last.outcome = "committed")
  /\ last.pc = "event" => (last.hooks = 0 /\ last.subs = <<>>)

\* C28 witness: a tick of the Election branch has returned after its
\* confirmed election and its hook.
C28_Witness ==
  /\ Returned(last)
  /\ last.hooks = 1
  /\ last.branch = "electElection"
  /\ "Server created" \in last.logs

\* C29 - Hook failure isolation: when the provider fails inside the hook the
\* failure is logged by the hook, the tick returns as after any confirmed
\* election (no tick error, no failed election reported, no second
\* electMaster), the process keeps running, its election stands and its
\* next tick can start.
C29_HookFailureIsolation ==
  (Returned(last) /\ last.cloud = "failed") =>
    /\ "Failed to provision server" \in last.logs
    /\ last.logs \cap Errors = {}
    /\ "Election tx confirmed" \in last.logs
    /\ last.failed = "none"
    /\ last.subs = <<"electMaster">>
    /\ last.hooks = 1
    /\ proc[last.node] = "running"
    /\ \/ currentMasterMAC = last.node
       \/ masterSince > heartbeats[keccak256(last.node)]
    /\ ENABLED tickGetCurrentMaster(last.node)

\* C29 witness: the provider has failed in the hook of the Election branch
\* and the tick has returned; the node is the master.
C29_Witness ==
  /\ Returned(last)
  /\ last.cloud = "failed"
  /\ "Failed to provision server" \in last.logs
  /\ last.branch = "electElection"
  /\ currentMasterMAC = last.node

\* C30 - Transport failure handling: a failed getCurrentMaster(), getState()
\* or transaction ends the tick at once: it is logged, nothing is sent
\* after a failed read, no hook runs after a failed transaction, nothing is
\* sent twice, the process keeps running and its next tick can start, with
\* nothing kept from the failed one.
C30_TransportFailure ==
  /\ (Returned(last) /\ last.failed # "none") =>
       /\ last.logs \cap Errors # {}
       /\ last.hooks = 0
       /\ last.failed \in {"getCurrentMaster", "getState"} =>
            (last.subs = <<>> /\ last.outcome = "none")
       /\ last.failed \in {"electMaster", "sendHeartbeat"} =>
            (last.subs = <<last.failed>> /\ last.outcome = "transport")
       /\ proc[last.node] = "running"
       /\ ENABLED tickGetCurrentMaster(last.node)
  /\ \A t \in InFlight :
       /\ t.failed = "none"
       /\ t.pc = "getState" =>
            t = [NewTick(t.node) EXCEPT !.pc = "getState", !.reads = 1,
                                        !.masterMAC = t.masterMAC,
                                        !.alive = t.alive]
  /\ \A n \in Nodes : proc[n] = main(CONFIG[n])

\* C30 witness: the confirmation of an electMaster of the Idle branch was
\* lost after the transaction was mined; the tick has returned.
C30_Witness ==
  /\ Returned(last)
  /\ last.failed = "electMaster"
  /\ last.branch = "electIdle"
  /\ currentMasterMAC = last.node
  /\ receipt.op = "electMaster"
  /\ receipt.status = "ok"

C33_ListenerIsObservabilityOnly ==
  [][/\ last'.pc = "event" =>
          /\ UNCHANGED <<vars, CONFIG, proc, ticking>>
          /\ last'.logs = {"EVENT"}
          /\ last'.subs = <<>>
          /\ last'.hooks = 0
     /\ Decided(last') =>
          \E t \in InFlight :
            /\ t.pc = "getState"
            /\ t.node = last'.node
            /\ last'.masterMAC = t.masterMAC
            /\ last'.alive = t.alive
            /\ last'.stateNum = getState
            /\ last'.branch = tickBranch(t.node, t.masterMAC, t.alive, getState)
            /\ last'.pc = tickCall(last'.branch)]_allVars

\* C33 witness: the listener of a node has run between the two reads of a
\* tick of that node.
C33_Witness ==
  /\ last.pc = "event"
  /\ \E t \in InFlight : t.node = last.node /\ t.pc = "getState"

\* C34 - Lost race by a node: a node whose electMaster is rejected with
\* MasterStillAlive because another node holds the role has logged the
\* rejection, has run no hook, is still running and can start its next
\* tick, on the Idle path and on the Election path alike; and a tick that
\* reads a running election with another node as master submits nothing.
C34_LostRace ==
  /\ (/\ Returned(last)
      /\ last.outcome = "rejected"
      /\ receipt.status = "MasterStillAlive"
      /\ currentMasterMAC # last.node) =>
       /\ last.branch \in {"electIdle", "electElection"}
       /\ last.logs \cap Errors # {}
       /\ last.subs = <<"electMaster">>
       /\ last.hooks = 0
       /\ proc[last.node] = "running"
       /\ ENABLED tickGetCurrentMaster(last.node)
  /\ (/\ Decided(last)
      /\ last.stateNum = Running
      /\ last.masterMAC # last.node) =>
       /\ last.branch = "slave"
       /\ last.pc = "end"
       /\ last.logs = {"I am a slave"}
       /\ proc[last.node] = "running"

\* C34 witness: two nodes read Idle in the same window; the electMaster of
\* this node came second and was rejected, the other node is the master.
C34_Witness ==
  /\ Returned(last)
  /\ last.branch = "electIdle"
  /\ last.outcome = "rejected"
  /\ receipt.status = "MasterStillAlive"
  /\ currentMasterMAC # last.node
  /\ currentMasterMAC \in Nodes
  /\ last.hooks = 0

\* C35 - A node only speaks for itself: every transaction a node sends is an
\* electMaster or a sendHeartbeat of one of its ticks, signed with the
\* node's wallet and carrying the node's own MAC, so only the node's own
\* heartbeat entry can change; a tick sends sendHeartbeat only if its own
\* getCurrentMaster() returned the node's MAC.
C35_SpeaksForItself ==
  [][/\ (vars' # vars /\ timestamp' = timestamp) =>
          /\ \E t \in InFlight :
               /\ t.pc = receipt'.op
               /\ t.pc \in {"electMaster", "sendHeartbeat"}
               /\ receipt'.mac = t.node
               /\ receipt'.sender = wallet(t.node)
               /\ t.pc = "sendHeartbeat" <=> t.branch = "sendHeartbeat"
          /\ \A h \in Hashes :
               heartbeats'[h] # heartbeats[h] => h = keccak256(receipt'.mac)
     /\ (Decided(last') /\ last'.branch = "sendHeartbeat") =>
          /\ last'.masterMAC = last'.node
          /\ last'.alive
     /\ CONFIG' = CONFIG]_allVars

\* C35 witness: the heartbeat of a tick was confirmed; it carries the MAC of
\* the node, which is the master, while the other node runs as well.
C35_Witness ==
  /\ Returned(last)
  /\ last.subs = <<"sendHeartbeat">>
  /\ last.outcome = "committed"
  /\ receipt.op = "sendHeartbeat"
  /\ receipt.mac = last.node
  /\ currentMasterMAC = last.node
  /\ \A n \in Nodes : proc[n] = "running"

(***************************************************************************)
(* The cluster with one healthy node: its RPC calls and transactions are   *)
(* answered, its timer keeps firing, every await of every tick settles     *)
(***************************************************************************)
\* the node with the complete configuration, whose transport works
Healthy == MAC_A

\* ticks in flight in the whole cluster
LiveTicks == 1

\* an await of a tick of the node settles: with its result, or (for a node
\* whose transport may fail) with an error
settle(localMAC) ==
  \E t \in InFlight :
    /\ t.node = localMAC
    /\ \/ tickGetState(t)
       \/ tickSubmit(t)
       \/ \E cloud \in {"none", "created", "failed"} :
            tickOnElectedMaster(t, cloud)
       \/ /\ localMAC # Healthy
          /\ \/ tickGetStateFails(t)
             \/ tickSubmitUnconfirmed(t)
             \/ tickSubmitFails(t)

\* the timer of the node fires and a tick starts
timer(localMAC) ==
  /\ BagCardinality(ticking) < LiveTicks
  /\ tickGetCurrentMaster(localMAC)

timerFails(localMAC) ==
  /\ BagCardinality(ticking) < LiveTicks
  /\ localMAC # Healthy
  /\ tickGetCurrentMasterFails(localMAC)

LiveNext ==
  \/ \E n \in Nodes : timer(n)
  \/ \E n \in Nodes : timerFails(n)
  \/ \E n \in Nodes : settle(n)
  \/ \E n \in Nodes : listenMasterElected(n)
  \/ \E dt \in 1..MaxStep : nodeMineBlock(dt)

\* setInterval(tick, CONFIG.checkInterval) fires again and again for every
\* running node, whatever the other ticks do (strong fairness: the bound on
\* the ticks in flight disables the timer now and then, the code has no
\* such bound); the JavaScript event loop resumes every tick whose await
\* has settled, and the chain mines every transaction sent (weak fairness)
LiveSpec ==
  /\ NodeInit
  /\ [][LiveNext]_allVars
  /\ \A n \in Nodes : SF_allVars(timer(n))
  /\ \A n \in Nodes : WF_allVars(settle(n))

\* C36 - Eventual leadership: whenever the state is Idle or Election, the
\* healthy node ticking on, the state is Running again later, with a node
\* whose process is running as master.
C36_EventualLeadership ==
  (getState # Running) ~>
    (/\ getState = Running
     /\ currentMasterMAC \in Nodes
     /\ proc[currentMasterMAC] = "running")

\* C36 witness: the master's lease had expired and an election of a node was
\* confirmed: the state is Running again.
C36_Witness ==
  /\ getState = Running
  /\ receipt.op = "electMaster"
  /\ receipt.status = "ok"
  /\ window.expired # ""
  /\ currentMasterMAC = receipt.mac
  /\ proc[currentMasterMAC] = "running"

\* C37 - Vacancy is initial only: once the contract was deployed with an
\* initial master or an electMaster has committed, currentMasterMAC is never
\* empty, currentMasterHash is never zero and getState() never returns Idle,
\* whatever transactions and blocks follow.
C37_VacancyIsInitialOnly ==
  /\ masterSince > 0 =>
       /\ currentMasterMAC # ""
       /\ currentMasterHash # Bytes32Zero
       /\ currentMasterHash = keccak256(currentMasterMAC)
       /\ getState # Idle
  /\ (deployed /\ masterSince = 0) => getState = Idle
  /\ (IsTx(receipt) /\ receipt.status = "ok" /\ receipt.op = "electMaster") =>
       masterSince > 0

\* C37 witness: long after the first election, the master's lease expired
\* and a new timeout set, the contract still has a master.
C37_Witness ==
  /\ masterSince > 0
  /\ receipt.op = "setHeartbeatTimeout"
  /\ receipt.status = "ok"
  /\ getState = Election
  /\ timestamp > masterSince + heartbeatTimeout
  /\ currentMasterMAC # ""

\* C38 - No timestamp underflow: no stored heartbeat lies after the current
\* block time, so the subtraction of electMaster and of getState() never
\* underflows: neither can revert with an arithmetic panic.
C38_NoTimestampUnderflow ==
  /\ \A h \in Hashes : heartbeats[h] <= timestamp
  /\ deployed =>
       /\ getStateStatus = "ok"
       /\ \A s \in Signers, m \in Strings : electMasterStatus(s, m) # "Panic"
  /\ receipt.status # "Panic"

\* C38 witness: getState() was called in a block later than the master's
\* last heartbeat, that heartbeat itself later than the deployment.
C38_Witness ==
  /\ receipt.op = "getState"
  /\ receipt.status = "ok"
  /\ ~Vacant
  /\ heartbeats[currentMasterHash] > GenesisTime
  /\ timestamp > heartbeats[currentMasterHash]

\* C39 - Claim and read agree: in every state, and so right after a
\* setHeartbeatTimeout as well, electMaster with a non-empty MAC by the
\* shared key succeeds exactly if getState() of that state is Idle or
\* Election and reverts with MasterStillAlive exactly if it is Running; an
\* electMaster that was rejected was rejected in a state that reads Running.
C39_ClaimAndReadAgree ==
  /\ deployed =>
       \A m \in MACs :
         /\ electMasterStatus(sharedKeyAddress, m) = "ok"
              <=> getState \in {Idle, Election}
         /\ electMasterStatus(sharedKeyAddress, m) = "MasterStillAlive"
              <=> getState = Running
  /\ (IsClaim(receipt) /\ receipt.status # "ok") =>
       /\ receipt.status = "MasterStillAlive"
       /\ getState = Running
  /\ (IsClaim(receipt) /\ receipt.status = "ok") =>
       /\ currentMasterMAC = receipt.mac
       /\ masterSince = timestamp

\* C39 witness: the lease of the old master was one second past the
\* timeout, getState() read Election, and the electMaster of another node in
\* that block succeeded.
C39_Witness ==
  /\ IsClaim(receipt)
  /\ receipt.status = "ok"
  /\ window.expired \notin {"", receipt.mac}
  /\ timestamp - heartbeats[keccak256(window.expired)] = heartbeatTimeout + 1
  /\ masterSince = timestamp

====
